---- MODULE Spec2Model ----
(***************************************************************************)
(* Model of the Asante event simulator (src/lib/asante/asanteSimulator.js) *)
(* and of the struct codec (src/util.js).                                  *)
(*                                                                         *)
(* An optional JavaScript value (null, undefined, a field that is not      *)
(* there) is a sequence of length at most one: <<>> is absent, <<v>> is v. *)
(* A timestamp string is its index in the lexical order of the timestamps; *)
(* DateParse turns it into milliseconds as Date.parse does.  Bolus amounts *)
(* are in tenths of a unit (25 is 2.5 U).  The field seq of a record is    *)
(* the identity of the JavaScript object: the ordinal of the handler call  *)
(* that was given it.  outcome is how the last call of a handler or of     *)
(* getEvents() ended, out the list it returned when it was getEvents(),    *)
(* callTime the time of the event it was given when it was a handler; nfed *)
(* and nBasal count the accepted events and the accepted Basal events.     *)
(* buf is the byte buffer the codec is given, codecCall the last call of   *)
(* a function of the codec with its arguments and its result, nwrites the  *)
(* number of calls of pack and copyBytes so far.                           *)
(***************************************************************************)
EXTENDS Integers, Sequences, FiniteSets, TLC

VARIABLES events, currBasal, currTimestamp, outcome, out, callTime, nfed, nBasal, pc,
          buf, codecCall, nwrites

simVars == <<events, currBasal, currTimestamp, outcome, out, callTime, nfed, nBasal, pc>>
codecVars == <<buf, codecCall, nwrites>>
vars == <<events, currBasal, currTimestamp, outcome, out, callTime, nfed, nBasal, pc,
          buf, codecCall, nwrites>>

(* ------------------------------ bounds -------------------------------- *)
MaxEvents == 3
MaxTime == 2
ExampleMaxTime == 6
BufLen == 6
MaxFields == 2
MaxStrLen == 3
MaxWrites == 2

(* ------------------------------ values -------------------------------- *)
None == <<>>
Some(x) == <<x>>

Times == 0..MaxTime
TickMs == 30 * 60 * 1000
DateParse(t) == t * TickMs

ExplicitDuration == 60 * 1000

BolusPayloads == { [normal |-> 0, expectedNormal |-> None],
                   [normal |-> 0, expectedNormal |-> Some(0)],
                   [normal |-> 0, expectedNormal |-> Some(30)],
                   [normal |-> 25, expectedNormal |-> None] }

BasalPayloads == { [duration |-> None, scheduleName |-> None],
                   [duration |-> Some(ExplicitDuration), scheduleName |-> Some("Standard")] }

SimpleEvent(k, t, q) == [type |-> k, time |-> t, seq |-> q]
BolusEvent(p, t, q) == [type |-> "bolus", time |-> t, seq |-> q,
                        normal |-> p.normal, expectedNormal |-> p.expectedNormal]
WizardEvent(b, t, q) == [type |-> "wizard", time |-> t, seq |-> q, bolus |-> b]
BasalEvent(p, t, q) == [type |-> "basal", time |-> t, seq |-> q,
                        duration |-> p.duration, scheduleName |-> p.scheduleName,
                        previous |-> None]

(* ------------------------- ensureTimestamp ---------------------------- *)
ensureTimestampThrows_ge(cur, e) == cur # None /\ cur[1] >= e.time
ensureTimestampThrows_never(cur, e) == FALSE

\* `currTimestamp > e.time`: null compares false against every timestamp
ensureTimestampThrows(cur, e) == cur # None /\ cur[1] > e.time

(* ------------------------------ basal --------------------------------- *)
\* The event builder: a field that was never given a value is absent, with_x
\* overwrites the field x, done() yields the record of the fields that are set.
isAssigned_duration(b) == b.duration # None
with_duration(b, d) == [b EXCEPT !.duration = Some(d)]
with_scheduleName(b, n) == [b EXCEPT !.scheduleName = Some(n)]
done(b) == b

closeBasal_reversed(cb, event) ==
    LET timed == IF ~isAssigned_duration(cb)
                 THEN with_duration(cb, DateParse(cb.time) - DateParse(event.time))
                 ELSE cb
    IN done(with_scheduleName(timed, "Unknown"))

closeBasal_recomputed(cb, event) ==
    done(with_scheduleName(with_duration(cb, DateParse(event.time) - DateParse(cb.time)),
                           "Unknown"))

\* the segment that basal() appends: the duration when none is assigned, then
\* with_scheduleName('Unknown').done()
closeBasal(cb, event) ==
    LET timed == IF ~isAssigned_duration(cb)
                 THEN with_duration(cb, DateParse(event.time) - DateParse(cb.time))
                 ELSE cb
    IN done(with_scheduleName(timed, "Unknown"))

omitPrevious_whole(b) == b

\* _.omit(currBasal, 'previous')
omitPrevious(b) == [type |-> b.type, time |-> b.time, seq |-> b.seq,
                    duration |-> b.duration, scheduleName |-> b.scheduleName]

(* ----------------------------- getEvents ------------------------------ *)
\* !x of an optional number: absent, or 0
falsy(x) == x = None \/ x[1] = 0

keepEvent_all(event) == TRUE

\* the callback of _.filter
keepEvent(event) ==
    IF event.type = "bolus"
    THEN ~(event.normal = 0 /\ falsy(event.expectedNormal))
    ELSE IF event.type = "wizard"
    THEN IF event.bolus # None
         THEN ~(event.bolus[1].normal = 0 /\ falsy(event.bolus[1].expectedNormal))
         ELSE TRUE
    ELSE TRUE

filterEvents(evts) == SelectSeq(evts, keepEvent)

CountLE(s, t) == Cardinality({i \in 1..Len(s) : s[i].time <= t})
CountLT(s, t) == Cardinality({i \in 1..Len(s) : s[i].time < t})

insertByTime_unstable(sorted, e) ==
    LET k == CountLT(sorted, e.time)
    IN SubSeq(sorted, 1, k) \o <<e>> \o SubSeq(sorted, k + 1, Len(sorted))

\* one step of the stable sort: e goes behind every record of its own time
insertByTime(sorted, e) ==
    LET k == CountLE(sorted, e.time)
    IN SubSeq(sorted, 1, k) \o <<e>> \o SubSeq(sorted, k + 1, Len(sorted))

RECURSIVE stableSort(_)
stableSort(s) == IF s = <<>> THEN <<>>
                 ELSE insertByTime(stableSort(SubSeq(s, 1, Len(s) - 1)), s[Len(s)])

sortByTime_none(s) == s

\* _.sortBy(..., function(e) { return e.time; })
sortByTime(s) == stableSort(s)

getEvents(evts) == sortByTime(filterEvents(evts))

eventsAfterGetEvents_inplace(evts) == stableSort(evts)

\* _.filter and _.sortBy build new arrays: events is as it was
eventsAfterGetEvents(evts) == evts

(* ----------------------------- finalBasal ----------------------------- *)
eventsAfterFinalBasal_push(evts, cb) == IF cb # None THEN Append(evts, cb[1]) ELSE evts

eventsAfterFinalBasal_clear(evts, cb) == <<>>

\* the body of finalBasal is empty
eventsAfterFinalBasal(evts, cb) == evts

(* ------------------------------- codec -------------------------------- *)
\* A JavaScript number of the codec is hi * 65536 + lo with lo in 0..65535:
\* the values of a 4-byte field reach 2^32 - 1.  The results of the bitwise
\* operators are 32-bit signed integers and are plain integers here.
Num(h, l) == [hi |-> h, lo |-> l]
FromInt(i) == Num(i \div 65536, i % 65536)
NumAdd(a, b) == Num(a.hi + b.hi + ((a.lo + b.lo) \div 65536), (a.lo + b.lo) % 65536)

\* ToInt32, applied by every bitwise operator to its operands
ToInt32(v) == (((v.hi + 32768) % 65536) - 32768) * 65536 + v.lo
\* x >> n, sign-propagating, and x << n, wrapping, of 32-bit integers
Sar(x, n) == x \div (2 ^ n)
Shl(x, n) == LET w == 2 ^ (32 - n)
             IN (((x + (w \div 2)) % w) - (w \div 2)) * (2 ^ n)
\* x & 0xFF
AndFF(x) == x % 256

extractInt_shift(b, st) ==
    NumAdd(NumAdd(NumAdd(FromInt(Shl(b[st + 3], 24)), FromInt(Shl(b[st + 2], 16))),
                  FromInt(Shl(b[st + 1], 8))),
           FromInt(b[st]))

\* the high byte is multiplied, not shifted: 16777216 * b[st+3] is no int32
extractInt(b, st) ==
    NumAdd(NumAdd(NumAdd(Num(256 * b[st + 3], 0), FromInt(Shl(b[st + 2], 16))),
                  FromInt(Shl(b[st + 1], 8))),
           FromInt(b[st]))

extractShort_be(b, st) == NumAdd(FromInt(Shl(b[st], 8)), FromInt(b[st + 1]))

extractShort(b, st) == NumAdd(FromInt(Shl(b[st + 1], 8)), FromInt(b[st]))

extractByte(b, st) == FromInt(b[st])

storeInt(v, b, st) ==
    [b EXCEPT ![st] = AndFF(ToInt32(v)),
              ![st + 1] = AndFF(Sar(ToInt32(v), 8)),
              ![st + 2] = AndFF(Sar(ToInt32(v), 16)),
              ![st + 3] = AndFF(Sar(ToInt32(v), 24))]

storeShort(v, b, st) ==
    [b EXCEPT ![st] = AndFF(ToInt32(v)),
              ![st + 1] = AndFF(Sar(ToInt32(v), 8))]

storeByte(v, b, st) == [b EXCEPT ![st] = AndFF(ToInt32(v))]

Codes == {"I", "s", "b"}

\* util.structs[c] is an entry of the table; for any other c it is undefined,
\* and reading a property of it throws a TypeError
IsKnown(c) == c \in Codes

structs(c) == CASE c = "I" -> [len |-> 4, put |-> "storeInt", get |-> "extractInt"]
                [] c = "s" -> [len |-> 2, put |-> "storeShort", get |-> "extractShort"]
                [] c = "b" -> [len |-> 1, put |-> "storeByte", get |-> "extractByte"]

\* util[name] of a put and of a get
callPut(name, v, b, st) == CASE name = "storeInt" -> storeInt(v, b, st)
                             [] name = "storeShort" -> storeShort(v, b, st)
                             [] name = "storeByte" -> storeByte(v, b, st)

callGet(name, b, st) == CASE name = "extractInt" -> extractInt(b, st)
                          [] name = "extractShort" -> extractShort(b, st)
                          [] name = "extractByte" -> extractByte(b, st)

\* structlen throws at the first code that is not in the table
structlenThrows(s) == \E i \in 1..Len(s) : ~IsKnown(s[i])

RECURSIVE structlenFrom(_, _)
structlenFrom(s, i) == IF i > Len(s) THEN 0 ELSE structs(s[i]).len + structlenFrom(s, i + 1)
structlen(s) == structlenFrom(s, 1)

\* the loop of pack from field i on, ctr bytes written so far; it throws at a
\* code that is not in the table, with the fields before it written
RECURSIVE packLoop(_, _, _, _, _, _)
packLoop(b, offset, format, values, i, ctr) ==
    IF i > Len(format) THEN [buf |-> b, ret |-> ctr, threw |-> FALSE]
    ELSE IF ~IsKnown(format[i]) THEN [buf |-> b, ret |-> 0, threw |-> TRUE]
    ELSE packLoop(callPut(structs(format[i]).put, values[i], b, offset + ctr),
                  offset, format, values, i + 1, ctr + structs(format[i]).len)

\* values are arguments[3], arguments[4], ...; ret is the value returned when
\* the call did not throw
pack(b, offset, format, values) ==
    IF Len(format) # Len(values)
    THEN [buf |-> b, ret |-> 0, threw |-> FALSE]
    ELSE IF structlenThrows(format)
    THEN [buf |-> b, ret |-> 0, threw |-> TRUE]
    ELSE packLoop(b, offset, format, values, 1, 0)

\* the loop of unpack from field i on: a later name overwrites an equal one;
\* it throws at a code that is not in the table
RECURSIVE unpackLoop(_, _, _, _, _, _, _)
unpackLoop(b, offset, format, names, i, ctr, result) ==
    IF i > Len(format) THEN [fields |-> result, ctr |-> ctr, threw |-> FALSE]
    ELSE IF ~IsKnown(format[i]) THEN [fields |-> result, ctr |-> ctr, threw |-> TRUE]
    ELSE unpackLoop(b, offset, format, names, i + 1, ctr + structs(format[i]).len,
                    [n \in DOMAIN result \cup {names[i]} |->
                        IF n = names[i] THEN callGet(structs(format[i]).get, b, offset + ctr)
                        ELSE result[n]])

EmptyObject == [n \in {} |-> Num(0, 0)]

\* unpack throws where its loop does: the arity check comes first
unpackThrows(b, offset, format, names) ==
    /\ Len(format) = Len(names)
    /\ unpackLoop(b, offset, format, names, 1, 0, EmptyObject).threw

\* the mapping unpack returns when it does not throw
unpack(b, offset, format, names) ==
    IF Len(format) # Len(names)
    THEN EmptyObject
    ELSE LET r == unpackLoop(b, offset, format, names, 1, 0, EmptyObject)
         IN [n \in DOMAIN r.fields \cup {"unpack_length"} |->
                IF n = "unpack_length" THEN FromInt(r.ctr) ELSE r.fields[n]]

\* String.fromCharCode of a number: its low 16 bits as one code unit
fromCharCode(b) == b % 65536

ByteLength(bytes) == Cardinality(DOMAIN bytes)

\* the loop of extractString: i runs from start while i < len
RECURSIVE extractStringFrom(_, _, _)
extractStringFrom(bytes, i, len) ==
    IF i < len THEN <<fromCharCode(bytes[i])>> \o extractStringFrom(bytes, i + 1, len)
    ELSE <<>>

\* a string is the sequence of its code units; !len holds of an omitted len
\* and of 0
extractString(bytes, start, len) ==
    extractStringFrom(bytes, start, IF falsy(len) THEN ByteLength(bytes) ELSE len[1])

\* the loop of copyBytes from byte i on
RECURSIVE copyBytesFrom(_, _, _, _, _)
copyBytesFrom(b, offset, bytes, bytecount, i) ==
    IF i < bytecount
    THEN copyBytesFrom([b EXCEPT ![offset + i] = bytes[i]], offset, bytes, bytecount, i + 1)
    ELSE b

copyBytes(b, offset, bytes, bytecount) ==
    [buf |-> copyBytesFrom(b, offset, bytes, bytecount, 0), ret |-> bytecount]

(* --------------------------- codec inputs ----------------------------- *)
Offsets == 0..(BufLen - 1)
ZeroBuffer == [i \in Offsets |-> 0]
FreshBuffers == {ZeroBuffer, [i \in Offsets |-> 255]}
NoCall == [op |-> "none", offset |-> 0, format |-> <<>>, values |-> <<>>, names |-> <<>>,
           ret |-> 0, result |-> EmptyObject, threw |-> FALSE]

Formats == UNION {[1..n -> Codes] : n \in 1..MaxFields}
UnknownCode == "x"
BadFormats == {f \in UNION {[1..n -> Codes \cup {UnknownCode}] : n \in 1..MaxFields} :
                  \E i \in 1..Len(f) : f[i] = UnknownCode}
AllNames == <<"f1", "f2", "f3", "f4">>
NamesFor(format) == SubSeq(AllNames, 1, Len(format))

SamplesFor(c) ==
    CASE c = "b" -> {Num(0, 0), Num(0, 90), Num(0, 255)}
      [] c = "s" -> {Num(0, 0), Num(0, 4660), Num(0, 65535)}
      [] c = "I" -> {Num(0, 0), Num(4660, 22136), Num(32767, 65535),
                     Num(32768, 0), Num(35243, 52719), Num(65535, 65535)}
      [] OTHER -> {Num(0, 90)}

ValuesFor(format) ==
    {vs \in [1..Len(format) -> UNION {SamplesFor(c) : c \in Codes}] :
        \A i \in 1..Len(format) : vs[i] \in SamplesFor(format[i])}

\* value lists and name lists one shorter and one longer than the descriptor
MismatchedLengths(format) == {Len(format) - 1, Len(format) + 1}
MismatchedValuesFor(format) == {[i \in 1..n |-> Num(0, 90)] : n \in MismatchedLengths(format)}
MismatchedNamesFor(format) == {SubSeq(AllNames, 1, n) : n \in MismatchedLengths(format)}

\* the fields of known width lie inside the buffer
Fits(offset, format) == offset + structlen(SelectSeq(format, IsKnown)) <= BufLen

\* pack writes into the buffer it is given, the one of the state; nwrites
\* counts the calls of pack and of copyBytes
PackCall ==
    \E format \in Formats \cup BadFormats, offset \in Offsets :
        /\ Fits(offset, format)
        /\ \E values \in ValuesFor(format) \cup MismatchedValuesFor(format) :
              LET r == pack(buf, offset, format, values)
              IN /\ buf' = r.buf
                 /\ codecCall' = [op |-> "pack", offset |-> offset, format |-> format,
                                  values |-> values, names |-> <<>>, ret |-> r.ret,
                                  result |-> EmptyObject, threw |-> r.threw]
        /\ nwrites' = nwrites + 1
        /\ UNCHANGED simVars

UnpackCall ==
    \E format \in Formats \cup BadFormats, offset \in Offsets :
        /\ Fits(offset, format)
        /\ \E names \in {NamesFor(format)} \cup MismatchedNamesFor(format) :
              codecCall' = [op |-> "unpack", offset |-> offset, format |-> format,
                            values |-> <<>>, names |-> names, ret |-> 0,
                            result |-> IF unpackThrows(buf, offset, format, names)
                                       THEN EmptyObject
                                       ELSE unpack(buf, offset, format, names),
                            threw |-> unpackThrows(buf, offset, format, names)]
        /\ UNCHANGED <<buf, nwrites>>
        /\ UNCHANGED simVars

\* the byte arrays copyBytes is given: 1, 2, 3, ... and 7, 8, 9, ...
CopySources == {[i \in 0..(n - 1) |-> first + i] : n \in 1..MaxStrLen, first \in {1, 7}}

\* copyBytes is given at most as many bytes to copy as the array holds, and
\* room for them in the buffer
CopyBytesCall ==
    \E bytes \in CopySources, offset \in Offsets, bytecount \in 0..MaxStrLen :
        /\ bytecount <= ByteLength(bytes)
        /\ offset + bytecount <= BufLen
        /\ LET r == copyBytes(buf, offset, bytes, bytecount)
           IN /\ buf' = r.buf
              /\ codecCall' = [op |-> "copyBytes", offset |-> offset, format |-> <<>>,
                               values |-> <<>>, names |-> <<>>, ret |-> r.ret,
                               result |-> EmptyObject, threw |-> FALSE, bytes |-> bytes]
        /\ nwrites' = nwrites + 1
        /\ UNCHANGED simVars

\* One writing call per run, as the first call, followed by reads: unpack
\* leaves the buffer as it is, so a write after an unpack and a second unpack
\* in a row reach only what the first write and the first unpack reach.
FirstPack == codecCall.op = "none" /\ PackCall
FirstCopyBytes == codecCall.op = "none" /\ CopyBytesCall
UnpackOnce == codecCall.op # "unpack" /\ UnpackCall

CodecNext == FirstPack \/ UnpackOnce \/ FirstCopyBytes

\* runs of up to MaxWrites writing calls into one buffer
BudgetPack == nwrites < MaxWrites /\ PackCall
BudgetCopyBytes == nwrites < MaxWrites /\ CopyBytesCall

WriteNext == BudgetPack \/ BudgetCopyBytes

\* extractString reads a byte array of its caller
StrBytes == {65, 66, 200}
ByteArrays == UNION {[0..(n - 1) -> StrBytes] : n \in 1..MaxStrLen}

ExtractStringCall ==
    \E bytes \in ByteArrays, start \in 0..MaxStrLen, len \in {None} \cup {Some(n) : n \in 0..MaxStrLen} :
        /\ start <= ByteLength(bytes)
        /\ len # None => start + len[1] <= ByteLength(bytes)
        /\ codecCall' = [op |-> "extractString", bytes |-> bytes, start |-> start,
                         len |-> len, str |-> extractString(bytes, start, len)]
        /\ UNCHANGED <<buf, nwrites>>
        /\ UNCHANGED simVars

StringNext == ExtractStringCall

(* ------------------------------ handlers ------------------------------ *)
Init == /\ events = <<>>
        /\ currBasal = None
        /\ currTimestamp = None
        /\ outcome = "init"
        /\ out = <<>>
        /\ callTime = None
        /\ nfed = 0
        /\ nBasal = 0
        /\ pc = 0
        /\ buf = ZeroBuffer
        /\ codecCall = NoCall
        /\ nwrites = 0

Throw(e) == /\ outcome' = "OrderingError"
            /\ out' = <<>>
            /\ callTime' = Some(e.time)
            /\ UNCHANGED <<events, currBasal, currTimestamp, nfed, nBasal>>

simpleSimulate_restamped(e) ==
    IF ensureTimestampThrows(currTimestamp, e)
    THEN Throw(e)
    ELSE /\ currTimestamp' = Some(e.time)
         /\ events' = Append(events, [e EXCEPT !.time = 0])
         /\ outcome' = "accepted"
         /\ out' = <<>>
         /\ callTime' = Some(e.time)
         /\ nfed' = nfed + 1
         /\ UNCHANGED <<currBasal, nBasal>>

simpleSimulate(e) ==
    IF ensureTimestampThrows(currTimestamp, e)
    THEN Throw(e)
    ELSE /\ currTimestamp' = Some(e.time)
         /\ events' = Append(events, e)
         /\ outcome' = "accepted"
         /\ out' = <<>>
         /\ callTime' = Some(e.time)
         /\ nfed' = nfed + 1
         /\ UNCHANGED <<currBasal, nBasal>>

basal(event) ==
    IF ensureTimestampThrows(currTimestamp, event)
    THEN Throw(event)
    ELSE /\ currTimestamp' = Some(event.time)
         /\ callTime' = Some(event.time)
         /\ IF currBasal # None
            THEN LET closed == closeBasal(currBasal[1], event)
                 IN /\ events' = Append(events, closed)
                    /\ currBasal' = Some([event EXCEPT !.previous = Some(omitPrevious(closed))])
            ELSE /\ events' = events
                 /\ currBasal' = Some(event)
         /\ outcome' = "accepted"
         /\ out' = <<>>
         /\ nfed' = nfed + 1
         /\ nBasal' = nBasal + 1

\* an empty function: it takes no event and returns nothing
finalBasal ==
    /\ events' = eventsAfterFinalBasal(events, currBasal)
    /\ UNCHANGED <<currBasal, currTimestamp, outcome, out, callTime, nfed, nBasal>>

getEventsCall ==
    /\ out' = getEvents(events)
    /\ events' = eventsAfterGetEvents(events)
    /\ outcome' = "events"
    /\ callTime' = None
    /\ UNCHANGED <<currBasal, currTimestamp, nfed, nBasal>>

\* handler calls, accepted or rejected, are explored while the budget lasts
Budget(e) == nfed < MaxEvents

CallSimple(e) == Budget(e) /\ simpleSimulate(e) /\ UNCHANGED <<pc, codecVars>>

Alarm == \E t \in Times : CallSimple(SimpleEvent("alarm", t, nfed + 1))

Basal == \E t \in Times, p \in BasalPayloads :
    LET e == BasalEvent(p, t, nfed + 1) IN Budget(e) /\ basal(e) /\ UNCHANGED <<pc, codecVars>>

Bolus == \E t \in Times, p \in BolusPayloads : CallSimple(BolusEvent(p, t, nfed + 1))

ChangeDeviceTime == \E t \in Times : CallSimple(SimpleEvent("changeDeviceTime", t, nfed + 1))

ChangeReservoir == \E t \in Times : CallSimple(SimpleEvent("changeReservoir", t, nfed + 1))

Resume == \E t \in Times : CallSimple(SimpleEvent("resume", t, nfed + 1))

Settings == \E t \in Times : CallSimple(SimpleEvent("settings", t, nfed + 1))

Smbg == \E t \in Times : CallSimple(SimpleEvent("smbg", t, nfed + 1))

Suspend == \E t \in Times : CallSimple(SimpleEvent("suspend", t, nfed + 1))

WizardBoluses == {None} \cup {Some(p) : p \in BolusPayloads \ {[normal |-> 0, expectedNormal |-> Some(30)]}}

Wizard == \E t \in Times, b \in WizardBoluses : CallSimple(WizardEvent(b, t, nfed + 1))

FinalBasal == finalBasal /\ UNCHANGED <<pc, codecVars>>

GetEvents == getEventsCall /\ UNCHANGED <<pc, codecVars>>

Next == \/ Alarm \/ Basal \/ Bolus \/ ChangeDeviceTime \/ ChangeReservoir
        \/ FinalBasal \/ Resume \/ Settings \/ Smbg \/ Suspend \/ Wizard
        \/ GetEvents

Spec == Init /\ [][Next]_vars

\* the codec is handed a buffer its caller made: of 0x00 or of 0xFF bytes
CodecInit == /\ events = <<>>
             /\ currBasal = None
             /\ currTimestamp = None
             /\ outcome = "init"
             /\ out = <<>>
             /\ callTime = None
             /\ nfed = 0
             /\ nBasal = 0
             /\ pc = 0
             /\ buf \in FreshBuffers
             /\ codecCall = NoCall
             /\ nwrites = 0

CodecSpec == CodecInit /\ [][CodecNext]_vars

WriteSpec == CodecInit /\ [][WriteNext]_vars

StringSpec == Init /\ [][StringNext]_vars

(* ------------------ the example scenario of the spec ------------------ *)
PlainBasal == [duration |-> None, scheduleName |-> None]
ZeroBolus == [normal |-> 0, expectedNormal |-> None]
DeliveredBolus == [normal |-> 25, expectedNormal |-> None]
ExampleTimes == 0..ExampleMaxTime

ExBasal0 == /\ pc = 0
            /\ \E t0 \in 0..(ExampleMaxTime - 1) : basal(BasalEvent(PlainBasal, t0, nfed + 1))
            /\ pc' = 1
            /\ UNCHANGED codecVars

ExBasal1 == /\ pc = 1
            /\ basal(BasalEvent(PlainBasal, currBasal[1].time + 1, nfed + 1))
            /\ pc' = 2
            /\ UNCHANGED codecVars

ExBolus2 == /\ pc = 2
            /\ \E t2 \in ExampleTimes :
                  /\ t2 >= currTimestamp[1]
                  /\ simpleSimulate(BolusEvent(ZeroBolus, t2, nfed + 1))
            /\ pc' = 3
            /\ UNCHANGED codecVars

ExBolus3 == /\ pc = 3
            /\ \E t3 \in ExampleTimes :
                  /\ t3 >= currTimestamp[1]
                  /\ simpleSimulate(BolusEvent(DeliveredBolus, t3, nfed + 1))
            /\ pc' = 4
            /\ UNCHANGED codecVars

ExGetEvents == getEventsCall /\ UNCHANGED <<pc, codecVars>>

ExampleNext == ExBasal0 \/ ExBasal1 \/ ExBolus2 \/ ExBolus3 \/ ExGetEvents

ExampleSpec == Init /\ [][ExampleNext]_vars

(* ------------------------------ claims -------------------------------- *)
IsBasal(e) == e.type = "basal"
BasalCount(s) == Cardinality({i \in 1..Len(s) : IsBasal(s[i])})
InSeq(s, e) == \E j \in 1..Len(s) : s[j] = e
HasSeq(s, q) == \E j \in 1..Len(s) : s[j].seq = q
PosOf(s, q) == CHOOSE k \in 1..Len(s) : s[k].seq = q
Unsorted(s) == \E i, j \in 1..Len(s) : i < j /\ s[i].time > s[j].time

\* C1: when a Basal event closes an open segment that has no explicit
\* duration, the segment appended to the log has duration equal to the time
\* of its successor Basal minus its own time (in milliseconds).
C1_ClosedDurationIsDelta ==
    [][ (nBasal' = nBasal + 1 /\ currBasal # None /\ currBasal[1].duration = None)
        => /\ Len(events') = Len(events) + 1
           /\ LET closed == events'[Len(events')]
              IN /\ closed.seq = currBasal[1].seq
                 /\ closed.time = currBasal[1].time
                 /\ closed.duration =
                       Some(DateParse(currBasal'[1].time) - DateParse(currBasal[1].time)) ]_vars

\* three Basal events at strictly increasing times have closed two segments
C1_Witness ==
    /\ nBasal = 3 /\ Len(events) = 2
    /\ IsBasal(events[1]) /\ events[1].time = 0 /\ events[1].duration = Some(1800000)
    /\ IsBasal(events[2]) /\ events[2].time = 1 /\ events[2].duration = Some(1800000)
    /\ currBasal[1].time = 2

\* C2: the list returned by getEvents() is non-decreasing by time.
C2_OutputSortedByTime ==
    outcome = "events" =>
        \A i \in 1..(Len(out) - 1) : out[i].time <= out[i + 1].time

\* getEvents() was called on a log that is out of time order and keeps it whole
C2_Witness ==
    outcome = "events" /\ Unsorted(events) /\ Len(out) = Len(events) /\ Len(out) = 2

\* C3 (as stated): records of equal time come out in the order in which they
\* were fed to the handlers, closed Basal segments included.
C3_TiesInInputOrder ==
    outcome = "events" =>
        \A i, j \in 1..Len(out) :
            (i < j /\ out[i].time = out[j].time) => out[i].seq < out[j].seq

\* C3 (amended): records of equal time come out in the order in which they
\* were appended to the log; that is input order among non-Basal records and
\* among Basal segments, while a Basal segment is appended only when the next
\* Basal event closes it.
C3_TiesInLogOrder ==
    outcome = "events" =>
        \A i, j \in 1..Len(out) :
            (i < j /\ out[i].time = out[j].time) =>
                /\ PosOf(events, out[i].seq) < PosOf(events, out[j].seq)
                /\ (IsBasal(out[i]) <=> IsBasal(out[j])) => out[i].seq < out[j].seq

\* a closed Basal comes out behind a record of its own time that was fed after it
C3_Witness ==
    /\ outcome = "events"
    /\ \E i, j \in 1..Len(out) :
          /\ i < j /\ out[i].time = out[j].time
          /\ ~IsBasal(out[i]) /\ IsBasal(out[j]) /\ out[j].seq < out[i].seq

\* C4: a Bolus is dropped from getEvents() iff normal = 0 and expectedNormal is
\* absent; with expectedNormal set, to whatever value, it is present.
C4_BolusDroppedIffZeroAndAbsent ==
    outcome = "events" =>
        \A i \in 1..Len(events) :
            events[i].type = "bolus" =>
                (InSeq(out, events[i]) <=>
                    ~(events[i].normal = 0 /\ events[i].expectedNormal = None))

\* C5: a Wizard is dropped iff its embedded bolus has normal = 0 and no
\* expectedNormal; a Wizard without a bolus and every other kind are kept.
C5_WizardDroppedIffZeroAndAbsent ==
    outcome = "events" =>
        \A i \in 1..Len(events) :
            IF events[i].type = "wizard"
            THEN InSeq(out, events[i]) <=>
                    ~(/\ events[i].bolus # None
                      /\ events[i].bolus[1].normal = 0
                      /\ events[i].bolus[1].expectedNormal = None)
            ELSE events[i].type # "bolus" => InSeq(out, events[i])

\* C6: a handler call raises the ordering error exactly when lastTimestamp is
\* set and the event's time is below it (equal times are accepted), and a call
\* that raises leaves log, openBasal and lastTimestamp as they were.
C6_OrderingErrorExactlyWhenEarlier ==
    [][ /\ outcome' = "OrderingError" =>
              UNCHANGED <<events, currBasal, currTimestamp, nfed, nBasal>>
        /\ callTime' # None =>
              /\ outcome' \in {"accepted", "OrderingError"}
              /\ outcome' = "OrderingError" <=>
                    (currTimestamp # None /\ callTime'[1] < currTimestamp[1])
              /\ outcome' = "accepted" => nfed' = nfed + 1 ]_vars

\* a call was rejected after two events of one time had been accepted
C6_Witness ==
    /\ outcome = "OrderingError" /\ currBasal # None /\ Len(events) = 1
    /\ events[1].time = currBasal[1].time

\* C7: a value of a field's unsigned range that pack wrote is the value unpack
\* reads at the same offset with the same descriptor; a 4-byte value of 2^31
\* or more comes back as the same non-negative number.
C7_PackUnpackRoundTrip ==
    [][ (/\ codecCall.op = "pack" /\ codecCall'.op = "unpack"
         /\ codecCall'.offset = codecCall.offset
         /\ codecCall'.format = codecCall.format
         /\ codecCall.format \in Formats
         /\ Len(codecCall.values) = Len(codecCall.format)
         /\ codecCall'.names = NamesFor(codecCall.format))
        => \A i \in 1..Len(codecCall.format) :
              /\ codecCall'.result[NamesFor(codecCall.format)[i]] = codecCall.values[i]
              /\ codecCall'.result[NamesFor(codecCall.format)[i]].hi >= 0 ]_vars

\* a 4-byte field holding 2^31 + 0x09ABCDEF was written over 0xFF bytes and read back
C7_Witness ==
    /\ codecCall.op = "unpack" /\ codecCall.format = <<"I">> /\ codecCall.offset = 1
    /\ codecCall.names = NamesFor(<<"I">>)
    /\ buf = [i \in Offsets |-> CASE i = 1 -> 239 [] i = 2 -> 205 [] i = 3 -> 171
                                  [] i = 4 -> 137 [] OTHER -> 255]
    /\ codecCall.result[NamesFor(<<"I">>)[1]] = Num(35243, 52719)

\* C8: getEvents() leaves log, openBasal and lastTimestamp unchanged, and a
\* second call in a row returns the list of the first.
C8_GetEventsHasNoEffect ==
    [][ outcome' = "events" =>
          /\ UNCHANGED <<events, currBasal, currTimestamp, nfed, nBasal>>
          /\ outcome = "events" => out' = out ]_vars

\* getEvents() returned a list that differs from the log it was taken from
C8_Witness ==
    /\ outcome = "events" /\ currBasal # None
    /\ Unsorted(events) /\ Len(out) < Len(events)

\* C10: the most recently accepted Basal is neither in log nor in the output;
\* n >= 1 accepted Basal events leave n-1 Basal records; finalBasal() changes
\* no state.
C10_TrailingBasalNeverEmitted ==
    /\ [](nBasal >= 1 =>
            /\ currBasal # None
            /\ BasalCount(events) = nBasal - 1
            /\ ~HasSeq(events, currBasal[1].seq)
            /\ outcome = "events" =>
                  (BasalCount(out) = nBasal - 1 /\ ~HasSeq(out, currBasal[1].seq)))
    /\ [][finalBasal => UNCHANGED <<events, currBasal, currTimestamp>>]_vars

\* getEvents() was called with a segment open behind two closed ones
C10_Witness ==
    /\ outcome = "events" /\ nBasal = 3 /\ currBasal # None
    /\ BasalCount(events) = 2 /\ BasalCount(out) = 2

\* C9 (as stated): the scenario's output is the closed Basal at t0, the open
\* Basal at t1 and the Bolus at t3, in this order.
C9_ExampleThreeRecords ==
    (pc = 4 /\ outcome = "events") =>
        /\ Len(out) = 3
        /\ out[1] = events[1]
        /\ out[2] = currBasal[1]
        /\ out[3] = events[3]

\* C9 (amended): the scenario's output is exactly two records, the closed
\* Basal at t0 (duration 1800000, scheduleName "Unknown", no previous) and the
\* Bolus at t3; the Basal at t1 stays open, holding the snapshot of the closed
\* one as previous, and is not in the output; the t2 bolus is dropped.
C9_ExampleTwoRecords ==
    (pc = 4 /\ outcome = "events") =>
        LET t1 == currBasal[1].time
            t3 == currTimestamp[1]
            closed == [type |-> "basal", time |-> t1 - 1, seq |-> 1,
                       duration |-> Some(1800000), scheduleName |-> Some("Unknown"),
                       previous |-> None]
        IN /\ out = << closed,
                       [type |-> "bolus", time |-> t3, seq |-> 4,
                        normal |-> 25, expectedNormal |-> None] >>
           /\ currBasal[1].previous = Some(omitPrevious(closed))
           /\ currBasal[1].duration = None
           /\ ~HasSeq(out, 2) /\ ~HasSeq(out, 3)

\* the scenario was fed to its end, with t1 < t2 < t3, and getEvents() called
C9_Witness ==
    /\ pc = 4 /\ outcome = "events" /\ Len(events) = 3
    /\ currBasal[1].time < events[2].time /\ events[2].time < events[3].time

\* the Basal records of a list, in the order of the list
BasalsOf(s) == SelectSeq(s, IsBasal)
\* an accepted Basal event closed the open segment in this step
ClosesSegment == nBasal' = nBasal + 1 /\ currBasal # None
\* the record this step appended to the log
Appended == events'[Len(events')]

\* C11 (as stated): a segment that basal() closes has scheduleName "Unknown",
\* unless a scheduleName was set on it before, which it then keeps.
C11_ScheduleNameKeptIfSet ==
    [][ ClosesSegment =>
          /\ Len(events') = Len(events) + 1
          /\ Appended.scheduleName =
                IF currBasal[1].scheduleName # None
                THEN currBasal[1].scheduleName ELSE Some("Unknown") ]_vars

\* C12: every step leaves the log it found as a prefix of the new log, so a
\* closed Basal in the log keeps its time, duration, scheduleName and previous
\* under every later handler call, finalBasal() and getEvents().
C12_LogAppendOnlyAndFrozen ==
    [][ /\ Len(events') >= Len(events)
        /\ SubSeq(events', 1, Len(events)) = events
        /\ \A i \in 1..Len(events) :
              IsBasal(events[i]) =>
                 /\ events'[i].time = events[i].time
                 /\ events'[i].duration = events[i].duration
                 /\ events'[i].scheduleName = events[i].scheduleName
                 /\ events'[i].previous = events[i].previous ]_vars

\* a closed Basal is still the first record of the log after another handler
\* call was accepted and getEvents() was called
C12_Witness ==
    /\ outcome = "events" /\ Len(events) = 2 /\ Len(out) = 2
    /\ IsBasal(events[1]) /\ events[1].duration # None /\ ~IsBasal(events[2])

\* C13: the first accepted Basal has no previous; every later one holds the
\* snapshot of the segment it closed (its time, duration and scheduleName as
\* closed, without a previous field), which is of an earlier event and of a
\* time not above its own.
C13_PreviousIsBackwardSnapshot ==
    LET chain == IF currBasal = None THEN BasalsOf(events)
                 ELSE Append(BasalsOf(events), currBasal[1])
    IN \A k \in 1..Len(chain) :
          IF k = 1 THEN chain[k].previous = None
          ELSE /\ chain[k].previous # None
               /\ LET p == chain[k].previous[1]
                  IN /\ DOMAIN p = {"type", "time", "seq", "duration", "scheduleName"}
                     /\ p.seq = chain[k - 1].seq
                     /\ p.time = chain[k - 1].time
                     /\ p.duration = chain[k - 1].duration
                     /\ p.scheduleName = chain[k - 1].scheduleName
                     /\ p.duration # None
                     /\ p.time <= chain[k].time
                     /\ p.seq < chain[k].seq

\* three Basal events: the second, closed, and the third, open, hold a previous
C13_Witness ==
    /\ nBasal = 3 /\ Len(events) = 2
    /\ events[1].previous = None
    /\ events[2].previous # None /\ events[2].previous[1].seq = events[1].seq
    /\ currBasal[1].previous # None /\ currBasal[1].previous[1].seq = events[2].seq
    /\ currBasal[1].time > events[2].time

\* the events the non-basal handlers are given at time t as the q-th call
NonBasalInputs(t, q) ==
    {SimpleEvent(k, t, q) : k \in {"alarm", "changeDeviceTime", "changeReservoir",
                                   "resume", "settings", "smbg", "suspend"}}
    \cup {BolusEvent(p, t, q) : p \in BolusPayloads}
    \cup {WizardEvent(b, t, q) : b \in WizardBoluses}

\* C18: an accepted call of a non-basal handler appends the record it was
\* given, as it was given, as the last element of the log, sets lastTimestamp
\* to its time and leaves openBasal alone; and the duration of a segment is the
\* difference to the next Basal event whatever was accepted in between.
C18_NonBasalAppendsUnchanged ==
    [][ /\ (nfed' = nfed + 1 /\ nBasal' = nBasal) =>
              /\ Len(events') = Len(events) + 1
              /\ SubSeq(events', 1, Len(events)) = events
              /\ Appended \in NonBasalInputs(callTime'[1], nfed + 1)
              /\ currTimestamp' = Some(callTime'[1])
              /\ currBasal' = currBasal
        /\ (ClosesSegment /\ currBasal[1].duration = None
              /\ currTimestamp[1] > currBasal[1].time) =>
              Appended.duration =
                 Some(DateParse(callTime'[1]) - DateParse(currBasal[1].time)) ]_vars

\* a non-basal record of a later time lies in the log before the segment that
\* was open when it came, and the segment's duration spans to the next Basal
C18_Witness ==
    /\ Len(events) = 2 /\ nBasal = 2
    /\ ~IsBasal(events[1]) /\ events[1].time = 1
    /\ IsBasal(events[2]) /\ events[2].time = 0
    /\ currBasal[1].time = 2 /\ events[2].duration = Some(3600000)

\* C19: the Basal records of the log are in the order in which their events
\* were fed and in non-decreasing time order among themselves.
C19_BasalsOfLogInOrder ==
    \A i, j \in 1..Len(events) :
        (i < j /\ IsBasal(events[i]) /\ IsBasal(events[j])) =>
            /\ events[i].time <= events[j].time
            /\ events[i].seq < events[j].seq

\* the log holds the segments of the first two of three Basal events, the
\* second of a later time than the first
C19_Witness ==
    /\ BasalCount(events) = 2 /\ nBasal = 3
    /\ BasalsOf(events)[1].seq = 1 /\ BasalsOf(events)[2].seq = 2
    /\ BasalsOf(events)[1].time < BasalsOf(events)[2].time

\* C20: a segment whose duration was assigned before it is closed keeps that
\* duration; the difference of the two times is taken only when none was set.
C20_ExplicitDurationKept ==
    [][ ClosesSegment =>
          /\ Len(events') = Len(events) + 1
          /\ Appended.seq = currBasal[1].seq
          /\ Appended.duration =
                IF currBasal[1].duration # None
                THEN currBasal[1].duration
                ELSE Some(DateParse(callTime'[1]) - DateParse(currBasal[1].time)) ]_vars

\* a segment with an explicit duration was closed by a Basal one tick later
C20_Witness ==
    /\ Len(events) = 1 /\ IsBasal(events[1])
    /\ events[1].duration = Some(ExplicitDuration)
    /\ currBasal # None /\ currBasal[1].time = events[1].time + 1

\* a call was given a descriptor with a code outside the table
HasUnknownCode(format) == \E i \in 1..Len(format) : format[i] \notin {"I", "s", "b"}

\* C14 (as stated): unpack with a descriptor and a name list of different
\* lengths, and pack with a descriptor and a value list of different lengths,
\* end in an error; they return nothing.
C14_ArityMismatchFailsLoudly ==
    /\ (codecCall.op = "unpack" /\ Len(codecCall.format) # Len(codecCall.names))
          => codecCall.threw
    /\ (codecCall.op = "pack" /\ Len(codecCall.format) # Len(codecCall.values))
          => codecCall.threw

\* C15 (as stated): with a code outside the table anywhere in the descriptor,
\* pack ends in an error and leaves the buffer as it was, byte for byte, and
\* unpack ends in an error and returns no mapping.
C15_UnknownCodeFailsWithoutOutput ==
    [][ /\ (nwrites' = nwrites + 1 /\ codecCall'.op = "pack"
              /\ HasUnknownCode(codecCall'.format))
           => (codecCall'.threw /\ buf' = buf)
        /\ (codecCall'.op = "unpack" /\ HasUnknownCode(codecCall'.format))
           => codecCall'.threw ]_vars

\* C15 for the calls that pass the arity check (one value, one name per code):
\* these all end in an error, pack with the buffer untouched.
C15_UnknownCodeFailsWhenArityMatches ==
    [][ /\ (nwrites' = nwrites + 1 /\ codecCall'.op = "pack"
              /\ HasUnknownCode(codecCall'.format)
              /\ Len(codecCall'.values) = Len(codecCall'.format))
           => (codecCall'.threw /\ buf' = buf)
        /\ (codecCall'.op = "unpack" /\ HasUnknownCode(codecCall'.format)
              /\ Len(codecCall'.names) = Len(codecCall'.format))
           => codecCall'.threw ]_vars

\* the code units of bytes[first] .. bytes[first + n - 1]
BytesAsString(bytes, first, n) == [k \in 1..n |-> bytes[first + k - 1]]

\* C16 (as stated): with len >= 1 and start + len within the array the result
\* is the len characters of bytes[start] .. bytes[start+len-1]; with len
\* omitted it is the characters of all bytes from start to the end.
C16_ExtractStringTakesLenBytes ==
    codecCall.op = "extractString" =>
        /\ (codecCall.len # None /\ codecCall.len[1] >= 1) =>
              codecCall.str = BytesAsString(codecCall.bytes, codecCall.start, codecCall.len[1])
        /\ codecCall.len = None =>
              codecCall.str = BytesAsString(codecCall.bytes, codecCall.start,
                                            ByteLength(codecCall.bytes) - codecCall.start)

\* C16, what the code does with a len: the result is the characters of
\* bytes[start] .. bytes[len-1], len - start of them, none when len <= start.
C16_ExtractStringTakesUpToIndexLen ==
    (codecCall.op = "extractString" /\ codecCall.len # None /\ codecCall.len[1] >= 1) =>
        codecCall.str =
            IF codecCall.len[1] > codecCall.start
            THEN BytesAsString(codecCall.bytes, codecCall.start,
                               codecCall.len[1] - codecCall.start)
            ELSE <<>>

\* the width of a code and the sum of the widths of the first n codes
WidthOf(c) == IF c = "b" THEN 1 ELSE IF c = "s" THEN 2 ELSE 4
RECURSIVE WidthSum(_, _)
WidthSum(format, n) == IF n = 0 THEN 0 ELSE WidthSum(format, n - 1) + WidthOf(format[n])
\* the unsigned little-endian value of the w bytes of b from st on
LittleEndian(b, st, w) ==
    IF w = 1 THEN Num(0, b[st])
    ELSE IF w = 2 THEN Num(0, 256 * b[st + 1] + b[st])
    ELSE Num(256 * b[st + 3] + b[st + 2], 256 * b[st + 1] + b[st])

\* C17: with a descriptor of known codes and as many distinct names, unpack
\* returns for the i-th name the unsigned little-endian value of its width's
\* bytes at offset plus the widths of the fields before it, and unpack_length
\* is the sum of the widths; pack with as many values returns that sum.
C17_UnpackLayoutAndLength ==
    /\ (/\ codecCall.op = "unpack" /\ codecCall.format \in Formats
        /\ codecCall.names = NamesFor(codecCall.format)) =>
           /\ ~codecCall.threw
           /\ DOMAIN codecCall.result =
                 {codecCall.names[i] : i \in 1..Len(codecCall.names)} \cup {"unpack_length"}
           /\ \A i \in 1..Len(codecCall.format) :
                 codecCall.result[codecCall.names[i]] =
                    LittleEndian(buf, codecCall.offset + WidthSum(codecCall.format, i - 1),
                                 WidthOf(codecCall.format[i]))
           /\ codecCall.result["unpack_length"] =
                 Num(0, WidthSum(codecCall.format, Len(codecCall.format)))
    /\ (/\ codecCall.op = "pack" /\ codecCall.format \in Formats
        /\ Len(codecCall.values) = Len(codecCall.format)) =>
           /\ ~codecCall.threw
           /\ codecCall.ret = WidthSum(codecCall.format, Len(codecCall.format))

\* a 2-byte field behind a 1-byte field was read at offset 1 from written bytes
C17_Witness ==
    /\ codecCall.op = "unpack" /\ codecCall.format = <<"b", "s">> /\ codecCall.offset = 1
    /\ codecCall.names = <<"f1", "f2">>
    /\ buf[1] = 90 /\ buf[2] = 52 /\ buf[3] = 18 /\ buf[4] = 255
    /\ codecCall.result["f1"] = Num(0, 90)
    /\ codecCall.result["f2"] = Num(0, 4660)
    /\ codecCall.result["unpack_length"] = Num(0, 3)

\* copyBytes wrote 7, 8 behind the fields that a pack had written
CopyAfterPackReached ==
    /\ codecCall.op = "copyBytes" /\ codecCall.ret = 2 /\ nwrites = 2
    /\ buf = [i \in Offsets |-> CASE i = 0 -> 255 [] i = 1 -> 90 [] i = 2 -> 52
                                  [] i = 3 -> 18 [] i = 4 -> 7 [] OTHER -> 8]

\* a second pack changed a byte of a buffer that a pack had written
PackAfterPackReached ==
    /\ codecCall.op = "pack" /\ codecCall.format = <<"b">> /\ codecCall.offset = 4
    /\ nwrites = 2
    /\ buf = [i \in Offsets |-> CASE i = 1 -> 90 [] i = 2 -> 52 [] i = 3 -> 18
                                  [] i = 4 -> 90 [] OTHER -> 255]

====
